---- MODULE Spec2Model ----
(***************************************************************************)
(* A model of the pitch-change server (server.py): the identity codec, the *)
(* artifact naming functions, the request handlers of the derived-artifact *)
(* pipeline (extract-audio, pitch, store-video) run by concurrent request  *)
(* threads over one shared file system, and the byte-range responder.      *)
(*                                                                         *)
(* Strings are sequences of code points, byte strings sequences of 0..255. *)
(***************************************************************************)
EXTENDS Integers, Sequences, FiniteSets, Bags, TLC

\* ------------------------------------------------------------------------
\* Characters and strings
\* ------------------------------------------------------------------------

\* The code point of a character written as a one-character string.
Ord(c) ==
    CASE c = "/" -> 47  [] c = "." -> 46  [] c = "_" -> 95  [] c = "+" -> 43
      [] c = "-" -> 45  [] c = "=" -> 61  [] c = " " -> 32
      [] c = "0" -> 48  [] c = "1" -> 49  [] c = "2" -> 50  [] c = "3" -> 51
      [] c = "4" -> 52  [] c = "5" -> 53  [] c = "6" -> 54  [] c = "7" -> 55
      [] c = "8" -> 56  [] c = "9" -> 57
      [] c = "A" -> 65
      [] c = "a" -> 97  [] c = "b" -> 98  [] c = "e" -> 101 [] c = "g" -> 103
      [] c = "i" -> 105 [] c = "j" -> 106 [] c = "m" -> 109 [] c = "n" -> 110
      [] c = "o" -> 111 [] c = "p" -> 112 [] c = "r" -> 114 [] c = "s" -> 115 [] c = "t" -> 116 [] c = "v" -> 118 [] c = "w" -> 119
      [] c = "x" -> 120 [] c = "y" -> 121

\* A string literal, written as a tuple of one-character strings.
Str(cs) == [i \in 1..Len(cs) |-> Ord(cs[i])]

\* str(n) of a natural number n: its decimal digits.
RECURSIVE DecStr(_)
DecStr(n) == IF n < 10 THEN <<48 + n>> ELSE DecStr(n \div 10) \o <<48 + (n % 10)>>

Abs(n) == IF n < 0 THEN -n ELSE n

\* s.rstrip(c): s without its trailing run of the character c.
RECURSIVE RStrip(_, _)
RStrip(s, c) ==
    IF Len(s) > 0 /\ s[Len(s)] = c THEN RStrip(SubSeq(s, 1, Len(s) - 1), c) ELSE s

\* The index of the first occurrence of c in s, 0 when there is none.
RECURSIVE FindFrom(_, _, _)
FindFrom(s, c, i) ==
    IF i > Len(s) THEN 0 ELSE IF s[i] = c THEN i ELSE FindFrom(s, c, i + 1)

\* The index of the last occurrence of c in s, 0 when there is none.
RECURSIVE RFindFrom(_, _, _)
RFindFrom(s, c, i) ==
    IF i < 1 THEN 0 ELSE IF s[i] = c THEN i ELSE RFindFrom(s, c, i - 1)

\* s.partition(c): <<head, tail>> around the first c (tail empty without one).
Partition(s, c) ==
    LET i == FindFrom(s, c, 1)
    IN  IF i = 0 THEN <<s, <<>>>> ELSE <<SubSeq(s, 1, i - 1), SubSeq(s, i + 1, Len(s))>>

\* ------------------------------------------------------------------------
\* Identity codec: b64url_encode_path / b64url_decode_path
\* ------------------------------------------------------------------------

\* The failure of a decoder (an exception in the code): no string holds -1.
DecodeError == <<-1>>

\* str.encode("utf-8") for a string without surrogates: one to four bytes for
\* each code point.
RECURSIVE Utf8Encode(_)
Utf8Encode(s) ==
    IF s = <<>> THEN <<>>
    ELSE LET c == Head(s)
             b == IF c < 128 THEN <<c>>
                  ELSE IF c < 2048 THEN <<192 + (c \div 64), 128 + (c % 64)>>
                  ELSE IF c < 65536 THEN
                      <<224 + (c \div 4096), 128 + ((c \div 64) % 64), 128 + (c % 64)>>
                  ELSE <<240 + (c \div 262144), 128 + ((c \div 4096) % 64),
                         128 + ((c \div 64) % 64), 128 + (c % 64)>>
         IN  b \o Utf8Encode(Tail(s))

IsCont(b) == b >= 128 /\ b < 192

\* bytes.decode("utf-8"): the code points, or DecodeError for a byte string that
\* is not valid UTF-8 (stray or missing continuation bytes, overlong forms,
\* surrogates, code points past U+10FFFF).
RECURSIVE Utf8Decode(_)
Utf8Decode(b) ==
    IF b = <<>> THEN <<>>
    ELSE LET b1 == b[1]
             n  == IF b1 < 128 THEN 1
                   ELSE IF b1 >= 194 /\ b1 < 224 THEN 2
                   ELSE IF b1 >= 224 /\ b1 < 240 THEN 3
                   ELSE IF b1 >= 240 /\ b1 < 245 THEN 4
                   ELSE 0
             ok == /\ n > 0
                   /\ Len(b) >= n
                   /\ \A i \in 2..n : IsCont(b[i])
             c  == IF n = 1 THEN b1
                   ELSE IF n = 2 THEN (b1 - 192) * 64 + (b[2] - 128)
                   ELSE IF n = 3 THEN (b1 - 224) * 4096 + (b[2] - 128) * 64 + (b[3] - 128)
                   ELSE (b1 - 240) * 262144 + (b[2] - 128) * 4096 + (b[3] - 128) * 64
                        + (b[4] - 128)
         IN  IF ~ok THEN DecodeError
             ELSE IF n = 3 /\ (c < 2048 \/ (c >= 55296 /\ c < 57344)) THEN DecodeError
             ELSE IF n = 4 /\ (c < 65536 \/ c > 1114111) THEN DecodeError
             ELSE LET rest == Utf8Decode(SubSeq(b, n + 1, Len(b)))
                  IN  IF rest = DecodeError THEN DecodeError ELSE <<c>> \o rest

\* The URL-safe base64 alphabet: A-Z a-z 0-9 - _
B64Char(v) ==
    IF v < 26 THEN 65 + v
    ELSE IF v < 52 THEN 97 + (v - 26)
    ELSE IF v < 62 THEN 48 + (v - 52)
    ELSE IF v = 62 THEN 45 ELSE 95

\* The value of a character for urlsafe_b64decode, -1 for a character outside
\* the alphabet. urlsafe_b64decode translates - and _ to + and / and then
\* decodes the standard alphabet, so + and / are accepted as 62 and 63 too.
B64Val(c) ==
    IF c >= 65 /\ c <= 90 THEN c - 65
    ELSE IF c >= 97 /\ c <= 122 THEN c - 97 + 26
    ELSE IF c >= 48 /\ c <= 57 THEN c - 48 + 52
    ELSE IF c = 45 \/ c = 43 THEN 62
    ELSE IF c = 95 \/ c = 47 THEN 63
    ELSE -1

\* base64.urlsafe_b64encode(raw): every three bytes give four characters, a
\* last group of one or two bytes is padded with = to four characters.
RECURSIVE B64Encode(_)
B64Encode(raw) ==
    IF raw = <<>> THEN <<>>
    ELSE IF Len(raw) = 1 THEN
        <<B64Char(raw[1] \div 4), B64Char((raw[1] % 4) * 16), 61, 61>>
    ELSE IF Len(raw) = 2 THEN
        <<B64Char(raw[1] \div 4),
          B64Char((raw[1] % 4) * 16 + raw[2] \div 16),
          B64Char((raw[2] % 16) * 4), 61>>
    ELSE
        <<B64Char(raw[1] \div 4),
          B64Char((raw[1] % 4) * 16 + raw[2] \div 16),
          B64Char((raw[2] % 16) * 4 + raw[3] \div 64),
          B64Char(raw[3] % 64)>> \o B64Encode(SubSeq(raw, 4, Len(raw)))

b64url_encode_path(path_str) == RStrip(B64Encode(Utf8Encode(path_str)), 61)

\* The sextets of the alphabet characters of s up to its first = (the decoder
\* skips characters outside the alphabet and stops at the padding).
RECURSIVE B64Sextets(_)
B64Sextets(s) ==
    IF s = <<>> \/ Head(s) = 61 THEN <<>>
    ELSE IF B64Val(Head(s)) < 0 THEN B64Sextets(Tail(s))
    ELSE <<B64Val(Head(s))>> \o B64Sextets(Tail(s))

RECURSIVE SextetsToBytes(_)
SextetsToBytes(q) ==
    IF Len(q) < 2 THEN <<>>
    ELSE IF Len(q) = 2 THEN <<q[1] * 4 + q[2] \div 16>>
    ELSE IF Len(q) = 3 THEN <<q[1] * 4 + q[2] \div 16, (q[2] % 16) * 16 + q[3] \div 4>>
    ELSE <<q[1] * 4 + q[2] \div 16, (q[2] % 16) * 16 + q[3] \div 4, (q[3] % 4) * 64 + q[4]>>
         \o SextetsToBytes(SubSeq(q, 5, Len(q)))

Repeat(c, n) == [i \in 1..n |-> c]

\* The number of = characters at the end of s.
PadCount(s) == Len(s) - Len(RStrip(s, 61))

\* base64.urlsafe_b64decode(s): the bytes, or DecodeError when the number of
\* data characters is 1 more than a multiple of 4 or the padding is short.
B64Decode(s) ==
    LET q == B64Sextets(s)
        r == Len(q) % 4
    IN  IF r = 1 THEN DecodeError
        ELSE IF r = 2 /\ PadCount(s) < 2 THEN DecodeError
        ELSE IF r = 3 /\ PadCount(s) < 1 THEN DecodeError
        ELSE SextetsToBytes(q)

\* A decoder that does not restore the padding.
b64url_decode_path_unpadded(b64_id) ==
    LET raw == B64Decode(b64_id)
    IN  IF raw = DecodeError THEN DecodeError ELSE Utf8Decode(raw)

b64url_decode_path(b64_id) ==
    LET padding == Repeat(61, (-Len(b64_id)) % 4)
        raw     == B64Decode(b64_id \o padding)
    IN  IF raw = DecodeError THEN DecodeError ELSE Utf8Decode(raw)

\* ------------------------------------------------------------------------
\* Artifact naming
\* ------------------------------------------------------------------------

\* A location: a directory of the configuration (lines 20-26) and a file name.
Loc(d, n) == [dir |-> d, name |-> n]

SignedSuffix(semitones) ==
    <<95, IF semitones >= 0 THEN 43 ELSE 45>> \o DecStr(Abs(semitones))

audio_base_path_for_id(file_id) == Loc("AUDIO_DIR", file_id \o Str(<<".", "w", "a", "v">>))

\* A naming of the pitched audio that puts it next to the base audio.
pitched_audio_path_in_audio_dir(file_id, semitones) ==
    Loc("AUDIO_DIR", file_id \o SignedSuffix(semitones) \o Str(<<".", "w", "a", "v">>))

pitched_audio_path_for_id(file_id, semitones) ==
    Loc("PITCH_DIR", file_id \o SignedSuffix(semitones) \o Str(<<".", "w", "a", "v">>))

thumb_path_for_id(file_id) == Loc("THUMBS_DIR", file_id \o Str(<<".", "j", "p", "g">>))

\* pathlib's PurePath.name: the path after its last "/".
PathName(p) == SubSeq(p, RFindFrom(p, 47, Len(p)) + 1, Len(p))

\* pathlib's PurePath.stem: the name without its last suffix (a dot that is
\* neither the first nor the last character of the name starts the suffix).
PathStem(p) ==
    LET n == PathName(p)
        i == RFindFrom(n, 46, Len(n))
    IN  IF i > 1 /\ i < Len(n) THEN SubSeq(n, 1, i - 1) ELSE n

\* api_store_video's out_path (lines 540-543).
StoreOutPath(video_path, semitones) ==
    Loc("DOWNLOADS_DIR",
        PathStem(video_path) \o SignedSuffix(semitones) \o Str(<<".", "m", "p", "4">>))

\* ------------------------------------------------------------------------
\* The environment: the videos on disk and the requests clients send
\* ------------------------------------------------------------------------

VideoA == Str(<<"/", "a", "/", "x", ".", "m", "p", "4">>)
VideoB == Str(<<"/", "b", "/", "x", ".", "m", "p", "4">>)
VideoGone == Str(<<"/", "a", "/", "y", ".", "m", "p", "4">>)

\* The source videos that exist on disk; VideoGone names no file.
VideosOnDisk == {VideoA, VideoB}

\* request.get_json()["id"] when the field is missing.
None == <<-2>>

\* The "id" fields requests carry: the tokens of three paths, a token that is
\* no base64 string, and no id at all.
IdInputs ==
    {b64url_encode_path(VideoA), b64url_encode_path(VideoB),
     b64url_encode_path(VideoGone), Str(<<"A">>), None}

MinSemitones == -8
MaxSemitones == 8

\* The "semitones" fields requests carry.
SemitoneInputs == {MinSemitones - 1, -3, 0, 3, MaxSemitones + 1}

\* The number of request threads that may be in flight at once.
MaxInflight == 2

\* The number of requests issued in one run of the model.
MaxRequests == 3

VARIABLES
    files,     \* the artifact directories: location -> content, for the files that exist
    inflight,  \* the requests being handled (a bag): each with its place in the handler
    last,      \* the response sent last, with the request it answers
    issued,    \* the number of requests issued so far
    rfile,     \* the bytes of the file /audio serves
    rreq,      \* the Range header of the last /audio request, as the client built it
    rresp,     \* the response of send_file_range to it
    keys,      \* two artifact keys a handler resolves
    locs,      \* the locations the naming functions give them
    cpath,     \* a path the identity codec is given
    ctoken,    \* its identifier, from b64url_encode_path
    cback,     \* the path b64url_decode_path gives for the identifier
    SEARCH_PATHS,  \* the registered search roots, in order
    CONFIG_FILE,   \* the "paths" list save_search_paths wrote last
    adding,    \* the add-path requests between their membership check and their append (a bag)
    pissued,   \* the number of add-path and remove-path requests issued so far
    rootlast,  \* the add-path or remove-path request that returned last
    listing,   \* the /api/videos request being handled: its place, the videos collected
    listed     \* the response to the last /api/videos request

pipeVars == <<files, inflight, last, issued>>
rangeVars == <<rfile, rreq, rresp>>
nameVars == <<keys, locs>>
codecVars == <<cpath, ctoken, cback>>
rootVars == <<SEARCH_PATHS, CONFIG_FILE, adding, pissued, rootlast>>
listVars == <<listing, listed>>
\* What the pipeline's handlers leave alone.
offPipe == <<rangeVars, nameVars, codecVars, rootVars, listVars>>
vars == <<files, inflight, last, issued, rfile, rreq, rresp, keys, locs,
          cpath, ctoken, cback, SEARCH_PATHS, CONFIG_FILE, adding, pissued, rootlast,
          listing, listed>>

\* A request in its handler. pc is "checkOut" (before the producer's look for
\* its output), "exec" (the tool is started) or "writing" (the tool has opened
\* its output).
Request(kind, file_id, semitones, pc) ==
    [kind |-> kind, id |-> file_id, semi |-> semitones, pc |-> pc]

At(q, pc) == [q EXCEPT !.pc = pc]

\* The response to request q: its status, and whether the handler started a tool.
Response(q, status, ran) ==
    [kind |-> q.kind, id |-> q.id, semi |-> q.semi, status |-> status, ran |-> ran]

NoResponse == [kind |-> "none", id |-> None, semi |-> 0, status |-> 0, ran |-> FALSE]

Put(b, q) == b (+) SetToBag({q})
Take(b, q) == b (-) SetToBag({q})

\* Path.exists()
Exists(l) == l \in DOMAIN files

\* The content of a file a tool run of request q writes: unfinished, finished.
Partial(q)  == [done |-> FALSE, kind |-> q.kind, id |-> q.id, semi |-> q.semi]
Complete(q) == [done |-> TRUE, kind |-> q.kind, id |-> q.id, semi |-> q.semi]

\* The location request q's producer writes to.
OutPath(q) ==
    CASE q.kind = "extract" -> audio_base_path_for_id(q.id)
      [] q.kind = "pitch"   -> pitched_audio_path_for_id(q.id, q.semi)
      [] q.kind = "store"   -> StoreOutPath(b64url_decode_path(q.id), q.semi)

\* get_video_path_from_id_or_404: 0 for a video that exists, else the status.
VideoStatus(file_id) ==
    LET path_str == b64url_decode_path(file_id)
    IN  IF path_str = DecodeError THEN 400
        ELSE IF path_str \notin VideosOnDisk THEN 404
        ELSE 0

\* The handler returns: the response goes out and the request leaves.
Reply(rest, q, status, ran) ==
    /\ last' = Response(q, status, ran)
    /\ inflight' = rest

\* The handler goes on to place pc.
Goto(rest, q, pc) ==
    /\ inflight' = Put(rest, At(q, pc))
    /\ last' = last

\* A request thread is free and takes the next request.
Issue ==
    /\ BagCardinality(inflight) < MaxInflight
    /\ issued < MaxRequests
    /\ issued' = issued + 1

\* extract_audio_wav and sox_pitch_shift_wav, lines 137-138 and 157-158: return
\* when the output exists, else start the tool.
EnsureOut(rest, q) ==
    IF Exists(OutPath(q)) THEN Reply(rest, q, 200, FALSE) ELSE Goto(rest, q, "exec")

\* POST /api/extract-audio, up to the start of the tool.
ExtractRequest ==
    /\ Issue
    /\ \E i \in IdInputs :
         LET q == Request("extract", i, 0, "new")
         IN  IF i = None THEN Reply(inflight, q, 400, FALSE)
             ELSE IF VideoStatus(i) # 0 THEN Reply(inflight, q, VideoStatus(i), FALSE)
             ELSE EnsureOut(inflight, q)
    /\ UNCHANGED <<files, offPipe>>

\* A range check that forgets the upper bound.
SemitonesInRangeNoUpper(semitones) == ~(semitones < MinSemitones)

\* A range check that forgets the lower bound.
SemitonesInRangeNoLower(semitones) == ~(semitones > MaxSemitones)

\* api_pitch, line 496.
SemitonesInRange(semitones) == ~(semitones < MinSemitones \/ semitones > MaxSemitones)

\* The base audio is not looked for.
BaseAudioReadyUnchecked(file_id) == TRUE

\* A look for the base audio of any video at all.
BaseAudioReadyOfAny(file_id) == \E l \in DOMAIN files : l.dir = "AUDIO_DIR"

\* api_pitch, lines 498-499.
BaseAudioReady(file_id) == Exists(audio_base_path_for_id(file_id))

\* POST /api/pitch, up to the call of sox_pitch_shift_wav (lines 491-501).
PitchRequest ==
    /\ Issue
    /\ \E i \in IdInputs, s \in SemitoneInputs :
         LET q == Request("pitch", i, s, "new")
         IN  IF i = None THEN Reply(inflight, q, 400, FALSE)
             ELSE IF ~SemitonesInRange(s) THEN Reply(inflight, q, 400, FALSE)
             ELSE IF ~BaseAudioReady(i) THEN Reply(inflight, q, 400, FALSE)
             ELSE Goto(inflight, q, "checkOut")
    /\ UNCHANGED <<files, offPipe>>

\* sox_pitch_shift_wav's look for its output, a file system read after
\* api_pitch's look for the base audio.
CheckOut ==
    /\ \E q \in BagToSet(inflight) :
         /\ q.pc = "checkOut"
         /\ EnsureOut(Take(inflight, q), q)
    /\ UNCHANGED <<files, issued, offPipe>>

\* A choice of audio that ignores the semitones: always the base audio.
StoreAudioPathBaseOnly(file_id, semitones) == audio_base_path_for_id(file_id)

\* api_store_video's choice of the audio to mux (lines 533-537).
StoreAudioPath(file_id, semitones) ==
    IF semitones # 0 THEN pitched_audio_path_for_id(file_id, semitones)
    ELSE audio_base_path_for_id(file_id)

\* POST /api/store-video, up to the start of the tool: the audio must exist;
\* mux_video_with_audio does not look for its output.
StoreRequest ==
    /\ Issue
    /\ \E i \in IdInputs, s \in SemitoneInputs :
         LET q == Request("store", i, s, "new")
         IN  IF i = None THEN Reply(inflight, q, 400, FALSE)
             ELSE IF VideoStatus(i) # 0 THEN Reply(inflight, q, VideoStatus(i), FALSE)
             ELSE IF ~Exists(StoreAudioPath(i, s)) THEN Reply(inflight, q, 400, FALSE)
             ELSE Goto(inflight, q, "exec")
    /\ UNCHANGED <<files, offPipe>>

\* Among the requests b, a tool run has location l open for writing.
Writer(b, l) == \E o \in BagToSet(b) : o.pc = "writing" /\ OutPath(o) = l

\* The tool (ffmpeg is run with -y; SoX overwrites too) opens its output: the
\* file is created, or truncated when it exists.
ToolOpen ==
    /\ \E q \in BagToSet(inflight) :
         /\ q.pc = "exec"
         /\ files' = (OutPath(q) :> Partial(q)) @@ files
         /\ Goto(Take(inflight, q), q, "writing")
    /\ UNCHANGED <<issued, offPipe>>

\* The tool exits non-zero before it opens its output: the handler answers 500.
ToolFailEarly ==
    /\ \E q \in BagToSet(inflight) :
         /\ q.pc = "exec"
         /\ Reply(Take(inflight, q), q, 500, TRUE)
    /\ UNCHANGED <<files, issued, offPipe>>

\* The tool exits non-zero after it opened its output: what it wrote stays,
\* the handler answers 500.
ToolFailLate ==
    /\ \E q \in BagToSet(inflight) :
         /\ q.pc = "writing"
         /\ Reply(Take(inflight, q), q, 500, TRUE)
    /\ UNCHANGED <<files, issued, offPipe>>

\* The tool exits 0: its output is finished, unless another run still writes
\* the file; the handler answers 200.
ToolSucceed ==
    /\ \E q \in BagToSet(inflight) :
         /\ q.pc = "writing"
         /\ files' = [files EXCEPT ![OutPath(q)] =
                         IF Writer(Take(inflight, q), OutPath(q)) THEN @ ELSE Complete(q)]
         /\ Reply(Take(inflight, q), q, 200, TRUE)
    /\ UNCHANGED <<issued, offPipe>>

\* ------------------------------------------------------------------------
\* Range file serving: send_file_range
\* ------------------------------------------------------------------------

\* The size of the largest file served.
MaxFileSize == 3

\* The byte values the served files are made of.
ByteInputs == {7, 200}

FileInputs == UNION {[1..n -> ByteInputs] : n \in 0..MaxFileSize}

\* One bound of a range as a client writes it: left out, a number, or text
\* that is no number.
Omitted == [t |-> "omitted"]
Num(n)  == [t |-> "num", n |-> n]
Garbage == [t |-> "garbage"]

\* str(n) of an integer.
IntStr(n) == IF n < 0 THEN <<45>> \o DecStr(-n) ELSE DecStr(n)

BoundText(b) ==
    CASE b.t = "omitted" -> <<>>
      [] b.t = "num"     -> IntStr(b.n)
      [] b.t = "garbage" -> Str(<<"x">>)

NoHeader == [t |-> "none"]

\* The Range header "<units>=<start>-<end>" of a request.
RangeHeader(units, start, end) ==
    [t |-> "range", units |-> units, start |-> start, end |-> end]

HeaderText(h) == h.units \o <<61>> \o BoundText(h.start) \o <<45>> \o BoundText(h.end)

StartInputs == {Omitted, Garbage} \cup {Num(n) : n \in 0..(MaxFileSize + 1)}
EndInputs   == {Omitted, Garbage} \cup {Num(n) : n \in (-1)..(MaxFileSize + 1)}
UnitInputs  == {Str(<<"b", "y", "t", "e", "s">>), Str(<<"i", "t", "e", "m", "s">>)}

HeaderInputs ==
    {NoHeader} \cup {RangeHeader(u, a, b) : u \in UnitInputs, a \in StartInputs, b \in EndInputs}

IsDigit(c) == c >= 48 /\ c <= 57

RECURSIVE DigitsValue(_)
DigitsValue(s) ==
    IF s = <<>> THEN 0 ELSE DigitsValue(SubSeq(s, 1, Len(s) - 1)) * 10 + (s[Len(s)] - 48)

ParseError == [t |-> "ValueError"]

\* int(s) for text made of signs, digits and letters: an optional sign and at
\* least one digit, else ValueError.
IntParse(s) ==
    LET signed == Len(s) > 0 /\ (s[1] = 43 \/ s[1] = 45)
        digits == IF signed THEN Tail(s) ELSE s
    IN  IF digits = <<>> \/ \E i \in 1..Len(digits) : ~IsDigit(digits[i]) THEN ParseError
        ELSE Num(IF signed /\ s[1] = 45 THEN -DigitsValue(digits) ELSE DigitsValue(digits))

\* f.seek(start); f.read(length), for length >= -1: the bytes from offset
\* start, at most length of them, and all of them to the end of the file when
\* length is -1.
SeekRead(file, start, length) ==
    IF length < 0 THEN SubSeq(file, start + 1, Len(file))
    ELSE SubSeq(file, start + 1, IF start + length < Len(file) THEN start + length ELSE Len(file))

\* The answer to a request whose handler raised.
ServerError == [status |-> 500]

NoResp == [status |-> 0]

\* send_file(path, conditional=True) for a request without a Range header,
\* with the two headers of lines 292-293 set: the whole file.
FullResponse(file) ==
    [status |-> 200, body |-> file, content_length |-> Len(file),
     accept_ranges |-> Str(<<"b", "y", "t", "e", "s">>),
     cache_control |-> Str(<<"n", "o", "-", "s", "t", "o", "r", "e">>)]

\* The answer to a request whose handler raised RequestedRangeNotSatisfiable.
RangeNotSatisfiable == [status |-> 416]

\* Lines 309-317: send_file(path, conditional=True) called for a request that
\* carries a Range header this function could not parse. send_file hands the
\* request to the response's make_conditional, which reads the Range header
\* itself: for a file of size 0 it leaves the response alone, and for a header
\* that is no single satisfiable bytes range (a unit that is not bytes, a bound
\* that is no number) it raises RequestedRangeNotSatisfiable, which leaves the
\* handler before lines 313-314 run.
FallbackResponse(file, h) ==
    IF Len(file) = 0 THEN FullResponse(file) ELSE RangeNotSatisfiable

\* Lines 319-328: the 206 response.
PartialResponse(file, start, end, length) ==
    [status |-> 206, body |-> SeekRead(file, start, length),
     content_range |-> Str(<<"b", "y", "t", "e", "s", " ">>) \o IntStr(start) \o <<45>>
                       \o IntStr(end) \o <<47>> \o IntStr(Len(file)),
     content_length |-> length,
     accept_ranges |-> Str(<<"b", "y", "t", "e", "s">>),
     cache_control |-> Str(<<"n", "o", "-", "s", "t", "o", "r", "e">>)]

\* A clamp that is off by one: an end equal to the file size stays.
ClampEndOffByOne(end, file_size) == IF end > file_size THEN file_size - 1 ELSE end

\* Lines 306-307: an end at or past the end of the file is the last byte.
ClampEnd(end, file_size) == IF end >= file_size THEN file_size - 1 ELSE end

\* send_file_range(path) for a request with Range header h (lines 286-328).
send_file_range(file, h) ==
    LET file_size == Len(file)
    IN  IF h = NoHeader THEN FullResponse(file)
        ELSE
          LET range_header == HeaderText(h)
              units      == Partition(range_header, 61)[1]
              range_spec == Partition(range_header, 61)[2]
              start_s    == Partition(range_spec, 45)[1]
              end_s      == Partition(range_spec, 45)[2]
              start      == IF start_s # <<>> THEN IntParse(start_s) ELSE Num(0)
              end0       == IF end_s # <<>> THEN IntParse(end_s) ELSE Num(file_size - 1)
          IN  IF units # Str(<<"b", "y", "t", "e", "s">>) THEN FallbackResponse(file, h)
              ELSE IF start = ParseError \/ end0 = ParseError THEN FallbackResponse(file, h)
              ELSE LET end    == ClampEnd(end0.n, file_size)
                       length == end - start.n + 1
                   IN  \* a buffered file's read(n) raises ValueError for n < -1
                       IF length < -1 THEN ServerError
                       ELSE PartialResponse(file, start.n, end, length)

\* GET /audio with any Range header, answered by send_file_range.
ServeRange ==
    /\ \E h \in HeaderInputs :
         /\ rreq' = h
         /\ rresp' = send_file_range(rfile, h)
    /\ UNCHANGED <<rfile, pipeVars, nameVars, codecVars, rootVars, listVars>>

\* ------------------------------------------------------------------------
\* Artifact keys and their locations
\* ------------------------------------------------------------------------

\* The artifact keys of the videos on disk: identifier, kind, variant.
ArtifactKeys ==
    {[id |-> b64url_encode_path(v), kind |-> k, variant |-> 0] :
        v \in VideosOnDisk, k \in {"thumbnail", "base-audio"}}
    \cup {[id |-> b64url_encode_path(v), kind |-> k, variant |-> n] :
            v \in VideosOnDisk, k \in {"pitched-audio", "muxed-output"},
            n \in MinSemitones..MaxSemitones}

\* The location of an artifact key, as the handlers compute it.
KeyLocation(k) ==
    CASE k.kind = "thumbnail"     -> thumb_path_for_id(k.id)
      [] k.kind = "base-audio"    -> audio_base_path_for_id(k.id)
      [] k.kind = "pitched-audio" -> pitched_audio_path_for_id(k.id, k.variant)
      [] k.kind = "muxed-output"  -> StoreOutPath(b64url_decode_path(k.id), k.variant)

\* The two artifact keys are resolved to their locations.
ResolveKeys ==
    /\ keys # <<>>
    /\ locs = <<>>
    /\ locs' = <<KeyLocation(keys[1]), KeyLocation(keys[2])>>
    /\ UNCHANGED <<keys, pipeVars, rangeVars, codecVars, rootVars, listVars>>

\* ------------------------------------------------------------------------
\* The identity codec on paths
\* ------------------------------------------------------------------------

\* The number of characters of the longest path after its leading "/".
MaxPathLen == 3

\* The characters paths are made of: "/", "a", "?", and three characters of
\* two, three and four bytes in UTF-8 (U+00E9, U+20AC, U+1F600).
PathChars == {47, 97, 63, 233, 8364, 128512}

\* Absolute paths: a "/" and up to MaxPathLen more characters.
PathInputs ==
    UNION {{<<47>> \o t : t \in [1..n -> PathChars]} : n \in 0..MaxPathLen}

\* A path is made into its identifier (as list_videos does, line 382) and the
\* identifier back into a path (as get_video_path_from_id_or_404 does, line 215).
CodecRoundTrip ==
    /\ ctoken = None
    /\ ctoken' = b64url_encode_path(cpath)
    /\ cback' = b64url_decode_path(ctoken')
    /\ UNCHANGED <<cpath, pipeVars, rangeVars, nameVars, rootVars, listVars>>

\* ------------------------------------------------------------------------
\* The search roots: add_path, remove_path
\* ------------------------------------------------------------------------

\* The number of add-path requests that may be between their membership check
\* and their append at once.
MaxAdding == 2

\* The number of add-path and remove-path requests issued in one run.
MaxRootRequests == 4

RootDir == Str(<<"/">>)
DirA == Str(<<"/", "a">>)
DirB == Str(<<"/", "b">>)

\* The "path" fields requests carry: three directories, one of them also
\* written with a trailing "/", and no path at all.
RootInputs == {RootDir, DirA, DirA \o Str(<<"/">>), DirB, None}

\* str(pathlib.Path(path).resolve()) of an absolute path without "." and
\* ".." parts and symbolic links: the path without trailing "/".
Resolve(path) == IF RStrip(path, 47) = <<>> THEN RootDir ELSE RStrip(path, 47)

\* p in SEARCH_PATHS
InList(p, l) == \E i \in 1..Len(l) : l[i] = p

\* list.remove(p): the list without its first p.
ListRemove(l, p) ==
    LET i == FindFrom(l, p, 1)
    IN  SubSeq(l, 1, i - 1) \o SubSeq(l, i + 1, Len(l))

NoRootRequest == [op |-> "none", p |-> None, status |-> 0]

RootResponse(op, p, status) == [op |-> op, p |-> p, status |-> status]

\* A request thread takes the next add-path or remove-path request.
RootIssue ==
    /\ pissued < MaxRootRequests
    /\ pissued' = pissued + 1

\* POST /api/paths up to its membership test (lines 351-356): the request
\* returns for a missing path or a path in the list, else it goes on to append.
AddPathCheck ==
    /\ RootIssue
    /\ BagCardinality(adding) < MaxAdding
    /\ \E path \in RootInputs :
         IF path = None
         THEN /\ rootlast' = RootResponse("add", None, 400)
              /\ adding' = adding
         ELSE IF InList(Resolve(path), SEARCH_PATHS)
         THEN /\ rootlast' = RootResponse("add", Resolve(path), 200)
              /\ adding' = adding
         ELSE /\ adding' = Put(adding, Resolve(path))
              /\ rootlast' = rootlast
    /\ UNCHANGED <<SEARCH_PATHS, CONFIG_FILE, pipeVars, rangeVars, nameVars, codecVars, listVars>>

\* Lines 357-359: the append after the membership test, and the save.
AddPathAppend ==
    /\ \E p \in BagToSet(adding) :
         /\ SEARCH_PATHS' = Append(SEARCH_PATHS, p)
         /\ CONFIG_FILE' = SEARCH_PATHS'
         /\ adding' = Take(adding, p)
         /\ rootlast' = RootResponse("add", p, 200)
    /\ UNCHANGED <<pissued, pipeVars, rangeVars, nameVars, codecVars, listVars>>

\* DELETE /api/paths (lines 364-374): list.remove finds and removes in one
\* call; for an absent path it raises ValueError, which is passed over.
RemovePath ==
    /\ RootIssue
    /\ \E path \in RootInputs :
         IF path = None
         THEN /\ rootlast' = RootResponse("remove", None, 400)
              /\ UNCHANGED <<SEARCH_PATHS, CONFIG_FILE>>
         ELSE /\ rootlast' = RootResponse("remove", Resolve(path), 200)
              /\ IF InList(Resolve(path), SEARCH_PATHS)
                 THEN /\ SEARCH_PATHS' = ListRemove(SEARCH_PATHS, Resolve(path))
                      /\ CONFIG_FILE' = SEARCH_PATHS'
                 ELSE UNCHANGED <<SEARCH_PATHS, CONFIG_FILE>>
    /\ UNCHANGED <<adding, pipeVars, rangeVars, nameVars, codecVars, listVars>>

\* ------------------------------------------------------------------------
\* The video listing: list_videos
\* ------------------------------------------------------------------------

\* The length of the longest list of search roots a listing starts from.
MaxRoots == 2

\* The lists of search roots a listing may find: add_path can leave a root in
\* the list twice, so a root may repeat.
RootLists == UNION {[1..n -> {RootDir, DirA, DirB}] : n \in 0..MaxRoots}

\* A file that is no video.
NotVideo == Str(<<"/", "a", "/", "x", ".", "j", "p", "g">>)

\* The files on disk, in the order os.walk("/") meets them.
WalkOrder == <<VideoA, NotVideo, VideoB>>

EndsWith(s, suffix) ==
    Len(s) >= Len(suffix) /\ SubSeq(s, Len(s) - Len(suffix) + 1, Len(s)) = suffix

\* File f lies in the directory root or below it.
IsUnder(f, root) ==
    LET prefix == IF root = RootDir THEN root ELSE root \o Str(<<"/">>)
    IN  Len(f) > Len(prefix) /\ SubSeq(f, 1, Len(prefix)) = prefix

\* iter_mp4_files(root): the files under root whose name ends in ".mp4" (the
\* names on disk are in lower case), in walk order.
IsMp4Under(f, root) == IsUnder(f, root) /\ EndsWith(PathName(f), Str(<<".", "m", "p", "4">>))

RECURSIVE WalkFrom(_, _)
WalkFrom(root, i) ==
    IF i > Len(WalkOrder) THEN <<>>
    ELSE (IF IsMp4Under(WalkOrder[i], root) THEN <<WalkOrder[i]>> ELSE <<>>)
         \o WalkFrom(root, i + 1)

iter_mp4_files(root) == WalkFrom(root, 1)

NotListing == [pc |-> "idle"]
NoListing == [status |-> 0]

\* The entry of a video in the listing (lines 388-394).
VideoEntry(path) == [id |-> b64url_encode_path(path), filename |-> PathName(path)]

\* Lines 396-401: the entries whose id was not seen before, in order.
RECURSIVE UniqueFrom(_, _, _)
UniqueFrom(videos, seen, unique) ==
    IF videos = <<>> THEN unique
    ELSE IF Head(videos).id \in seen THEN UniqueFrom(Tail(videos), seen, unique)
    ELSE UniqueFrom(Tail(videos), seen \cup {Head(videos).id}, Append(unique, Head(videos)))

\* A listing that is returned as collected.
DeduplicateNothing(videos) == videos

Deduplicate(videos) == UniqueFrom(videos, {}, <<>>)

\* A thumbnail file as ffmpeg leaves it: finished or not.
Thumbnail(file_id, done) == [done |-> done, kind |-> "thumb", id |-> file_id, semi |-> 0]

\* What a run of generate_thumbnail may come to when the thumbnail is absent:
\* ffmpeg writes it, exits non-zero without a file, exits non-zero leaving a
\* file, or cannot be started (run_cmd raises).
ThumbOutcomes == {"made", "failed", "failedPartial", "raised"}

\* GET /api/videos begins (line 379).
ListStart ==
    /\ listing = NotListing
    /\ listing' = [pc |-> "walk", root |-> 0, todo |-> <<>>, videos |-> <<>>, warnings |-> {}]
    /\ UNCHANGED <<listed, pipeVars, rangeVars, nameVars, codecVars, rootVars>>

\* Line 380-381: the loop goes on to the next root and walks it.
ListNextRoot ==
    /\ listing.pc = "walk"
    /\ listing.todo = <<>>
    /\ listing.root < Len(SEARCH_PATHS)
    /\ listing' = [listing EXCEPT !.root = @ + 1,
                                   !.todo = iter_mp4_files(SEARCH_PATHS[listing.root + 1])]
    /\ UNCHANGED <<listed, pipeVars, rangeVars, nameVars, codecVars, rootVars>>

\* Lines 382-394: one video of the walk: its thumbnail is generated unless it
\* exists, a failure is logged, and the video is collected.
ListVisit ==
    /\ listing.pc = "walk"
    /\ listing.todo # <<>>
    /\ LET path       == Head(listing.todo)
           file_id    == b64url_encode_path(path)
           thumb_path == thumb_path_for_id(file_id)
           collected  == [listing EXCEPT !.todo = Tail(@),
                                         !.videos = Append(@, VideoEntry(path))]
       IN  IF Exists(thumb_path)
           THEN /\ files' = files
                /\ listing' = collected
           ELSE \E outcome \in ThumbOutcomes :
                  /\ files' = CASE outcome = "made" ->
                                      (thumb_path :> Thumbnail(file_id, TRUE)) @@ files
                                 [] outcome = "failedPartial" ->
                                      (thumb_path :> Thumbnail(file_id, FALSE)) @@ files
                                 [] OTHER -> files
                  /\ listing' = IF outcome = "made" THEN collected
                                ELSE [collected EXCEPT !.warnings = @ \cup {file_id}]
    /\ UNCHANGED <<inflight, last, issued, listed, rangeVars, nameVars, codecVars, rootVars>>

\* Lines 395-402: after the last root, the collected videos are deduplicated
\* and returned.
ListFinish ==
    /\ listing.pc = "walk"
    /\ listing.todo = <<>>
    /\ listing.root = Len(SEARCH_PATHS)
    /\ listed' = [status |-> 200, videos |-> Deduplicate(listing.videos),
                  warnings |-> listing.warnings]
    /\ listing' = NotListing
    /\ UNCHANGED <<pipeVars, rangeVars, nameVars, codecVars, rootVars>>

\* ------------------------------------------------------------------------
\* Specifications
\* ------------------------------------------------------------------------

PipeInit ==
    /\ files = <<>>
    /\ inflight = EmptyBag
    /\ last = NoResponse
    /\ issued = 0

RangeIdle ==
    /\ rreq = NoHeader
    /\ rresp = NoResp

NameIdle ==
    /\ keys = <<>>
    /\ locs = <<>>

CodecIdle ==
    /\ cpath = <<>>
    /\ ctoken = None
    /\ cback = None

\* Lines 242 and 280: the search roots at start-up, with no configuration
\* file yet; no request for them in flight.
RootInit ==
    /\ SEARCH_PATHS = <<>>
    /\ CONFIG_FILE = None
    /\ adding = EmptyBag
    /\ pissued = 0
    /\ rootlast = NoRootRequest

ListIdle ==
    /\ listing = NotListing
    /\ listed = NoListing

\* What all the specifications start with, apart from their own variables.
OffPipeIdle ==
    /\ rfile = <<>>
    /\ RangeIdle
    /\ NameIdle
    /\ CodecIdle
    /\ RootInit
    /\ ListIdle

Init ==
    /\ PipeInit
    /\ OffPipeIdle

Next ==
    \/ ExtractRequest
    \/ PitchRequest
    \/ StoreRequest
    \/ CheckOut
    \/ ToolOpen
    \/ ToolFailEarly
    \/ ToolFailLate
    \/ ToolSucceed

\* The pipeline: requests handled concurrently over the artifact directories.
Spec == Init /\ [][Next]_vars

RangeInit ==
    /\ PipeInit
    /\ rfile \in FileInputs
    /\ RangeIdle
    /\ NameIdle
    /\ CodecIdle
    /\ RootInit
    /\ ListIdle

RangeNext == ServeRange

\* The range responder: any sequence of /audio requests for one file.
RangeSpec == RangeInit /\ [][RangeNext]_vars

NameNext == ResolveKeys

NameInit ==
    /\ PipeInit
    /\ rfile = <<>>
    /\ RangeIdle
    /\ keys \in ArtifactKeys \X ArtifactKeys
    /\ locs = <<>>
    /\ CodecIdle
    /\ RootInit
    /\ ListIdle

\* The naming functions, applied to any two artifact keys.
NameSpec == NameInit /\ [][NameNext]_vars

CodecInit ==
    /\ PipeInit
    /\ rfile = <<>>
    /\ RangeIdle
    /\ NameIdle
    /\ cpath \in PathInputs
    /\ ctoken = None
    /\ cback = None
    /\ RootInit
    /\ ListIdle

CodecNext == CodecRoundTrip

ListInit ==
    /\ PipeInit
    /\ rfile = <<>>
    /\ RangeIdle
    /\ NameIdle
    /\ CodecIdle
    /\ SEARCH_PATHS \in RootLists
    /\ CONFIG_FILE = SEARCH_PATHS
    /\ adding = EmptyBag
    /\ pissued = 0
    /\ rootlast = NoRootRequest
    /\ ListIdle

ListNext ==
    \/ ListStart
    \/ ListNextRoot
    \/ ListVisit
    \/ ListFinish

\* The video listing, for any list of search roots.
ListSpec == ListInit /\ [][ListNext]_vars

RootNext ==
    \/ AddPathCheck
    \/ AddPathAppend
    \/ RemovePath

\* The search roots: add-path and remove-path requests handled concurrently.
RootSpec == Init /\ [][RootNext]_vars

\* The identity codec, applied to any absolute path.
CodecSpec == CodecInit /\ [][CodecNext]_vars

\* ------------------------------------------------------------------------
\* Properties of the pipeline
\* ------------------------------------------------------------------------

\* The artifact key of a request or of a response: kind, identifier, variant.
Key(q) == <<q.kind, q.id, q.semi>>

\* The handler of q has started its producer tool and the tool has not exited.
Executing(q) == q.pc \in {"exec", "writing"}

\* The number of requests in flight whose producer for key k is running.
Executions(k) ==
    BagCardinality([q \in {x \in BagToSet(inflight) : Executing(x) /\ Key(x) = k}
                       |-> inflight[q]])

\* In this step a request was issued and answered at once: last' answers it.
Answered == issued' = issued + 1 /\ inflight' = inflight

\* In this step a handler returned: last' is its response.
Responded == Answered \/ BagCardinality(inflight') < BagCardinality(inflight)

\* In this step request q (at its place q.pc) came to be in flight.
Entered(q) == CopiesIn(q, inflight') > CopiesIn(q, inflight)

\* C1: concurrent requests for one artifact key execute the key's producer
\* tool once: at no time do two requests in flight both have the producer of
\* the same key started.
C1_OneProducerPerKey ==
    \A q \in BagToSet(inflight) : Executions(Key(q)) <= 1

\* C2: no request for a key returns success while the producer of that key is
\* still running for another request.
C2_NoSuccessWhileProducing ==
    [][(Responded /\ last'.status = 200)
         => ~\E q \in BagToSet(inflight') : Executing(q) /\ Key(q) = Key(last')]_vars

\* C3: of two requests for one key issued one after the other, the second does
\* not invoke the producer: a request handled alone never starts the producer
\* for a key whose finished artifact, written for that key, is on disk.
C3_SecondRequestProducesNothing ==
    [][\A q \in BagToSet(inflight') :
          (Entered(q) /\ q.pc = "exec" /\ BagCardinality(inflight') = 1)
            => ~(Exists(OutPath(q)) /\ files[OutPath(q)] = Complete(q))]_vars

\* C4: the mapping from artifact key to location is injective: distinct keys
\* have distinct locations.
C4_LocationsInjective ==
    (locs # <<>> /\ keys[1] # keys[2]) => locs[1] # locs[2]

\* C5: the artifact namespace is append-only: a finished artifact is never
\* rewritten, replaced or deleted.
C5_AppendOnly ==
    [][\A l \in DOMAIN files :
          files[l].done => (l \in DOMAIN files' /\ files'[l] = files[l])]_vars

\* C6: after a request that failed because its producer tool failed, no file
\* is visible at the key's location.
C6_NoArtifactAfterFailure ==
    [][(Responded /\ last'.status = 500) => OutPath(last') \notin DOMAIN files']_vars

\* A pitch request or response whose semitones lie outside [-8, 8].
OutOfRangePitch(q) == q.kind = "pitch" /\ (q.semi < -8 \/ q.semi > 8)

\* C7: a pitch request with semitones outside [-8, 8] is answered 400, never
\* reaches a tool (it is never in flight, its handler started no tool), and
\* its step changes no file.
C7_OutOfRangeRejected ==
    /\ [](/\ \A q \in BagToSet(inflight) : ~OutOfRangePitch(q)
          /\ OutOfRangePitch(last) => (last.status = 400 /\ ~last.ran))
    /\ [][(Answered /\ OutOfRangePitch(last')) => files' = files]_vars

\* C7's case: an out-of-range pitch request was rejected while the base audio
\* of its identifier existed.
C7_Witness ==
    /\ OutOfRangePitch(last)
    /\ last.semi = 9
    /\ last.status = 400
    /\ Exists(audio_base_path_for_id(last.id))

\* The audio a store-video request for (file_id, semitones) must find.
ExpectedAudio(file_id, semitones) ==
    IF semitones = 0 THEN [dir |-> "AUDIO_DIR", name |-> file_id \o Str(<<".", "w", "a", "v">>)]
    ELSE pitched_audio_path_for_id(file_id, semitones)

\* A store-video request or response for a source video that exists.
StoreOfVideo(q) == q.kind = "store" /\ q.id # None /\ VideoStatus(q.id) = 0

\* C8: a store-video request for an existing video starts the mux tool only
\* when the audio for exactly its semitones exists (the base audio for 0, the
\* pitched audio for that value otherwise); when that audio is absent it is
\* answered 400, no tool is started and no file changes.
C8_StoreNeedsItsAudio ==
    [][/\ \A q \in BagToSet(inflight') :
            (Entered(q) /\ StoreOfVideo(q) /\ q.pc = "exec")
              => Exists(ExpectedAudio(q.id, q.semi))
       /\ (Answered /\ StoreOfVideo(last'))
            => /\ ~Exists(ExpectedAudio(last'.id, last'.semi))
               /\ last'.status = 400
               /\ ~last'.ran
               /\ files' = files]_vars

\* C8's case: store-video for 3 semitones was rejected although the base
\* audio and the pitched audio for -3 semitones exist.
C8_Witness ==
    /\ StoreOfVideo(last)
    /\ last.semi = 3
    /\ last.status = 400
    /\ ~last.ran
    /\ Exists(audio_base_path_for_id(last.id))
    /\ Exists(pitched_audio_path_for_id(last.id, -3))
    /\ ~Exists(pitched_audio_path_for_id(last.id, 3))

\* A pitch request or response with semitones in [-8, 8].
InRangePitch(q) == q.kind = "pitch" /\ q.id # None /\ q.semi >= -8 /\ q.semi <= 8

\* C9: a pitch request with semitones in [-8, 8] goes on to the pitch-shift
\* tool only when the base audio exists; when the base audio is absent it is
\* answered 400, no tool is started and no file changes.
C9_PitchNeedsBaseAudio ==
    [][/\ \A q \in BagToSet(inflight') :
            (Entered(q) /\ InRangePitch(q) /\ q.pc = "checkOut")
              => Exists(audio_base_path_for_id(q.id))
       /\ (Answered /\ InRangePitch(last'))
            => /\ ~Exists(audio_base_path_for_id(last'.id))
               /\ last'.status = 400
               /\ ~last'.ran
               /\ files' = files]_vars

\* C9's case: an in-range pitch request was rejected for want of its base
\* audio, while the base audio of another video exists.
C9_Witness ==
    /\ InRangePitch(last)
    /\ last.status = 400
    /\ ~last.ran
    /\ ~Exists(audio_base_path_for_id(last.id))
    /\ \E l \in DOMAIN files : l.dir = "AUDIO_DIR" /\ files[l].done
    /\ \A l \in DOMAIN files : l.dir # "PITCH_DIR"

\* In this step request q, at its place q.pc, took a step of its handler.
Moved(q) == CopiesIn(q, inflight') < CopiesIn(q, inflight)

\* Where the pitched audio of (file_id, semitones) is kept.
PitchedLocation(file_id, semitones) ==
    [dir |-> "PITCH_DIR",
     name |-> file_id \o (IF semitones >= 0 THEN Str(<<"_", "+">>) ELSE Str(<<"_", "-">>))
              \o DecStr(Abs(semitones)) \o Str(<<".", "w", "a", "v">>)]

\* Where the base audio of file_id is kept.
BaseLocation(file_id) == [dir |-> "AUDIO_DIR", name |-> file_id \o Str(<<".", "w", "a", "v">>)]

\* This step leaves every file but the one at location l as it was, and
\* creates no file but the one at l.
TouchesOnly(l) ==
    /\ \A o \in DOMAIN files : o # l => (o \in DOMAIN files' /\ files'[o] = files[o])
    /\ DOMAIN files' \subseteq (DOMAIN files \cup {l})

\* C14: a pitch request for (id, s) creates at most the pitched audio of
\* (id, s), at a location that is not the base audio's, and leaves the base
\* audio of id and every other file as it was: no step of its handler touches
\* another file, and its first step touches none.
C14_PitchTouchesOnlyItsOutput ==
    [][/\ \A q \in BagToSet(inflight) :
            (q.kind = "pitch" /\ Moved(q))
              => /\ TouchesOnly(PitchedLocation(q.id, q.semi))
                 /\ PitchedLocation(q.id, q.semi) # BaseLocation(q.id)
       /\ (Answered /\ last'.kind = "pitch") => files' = files
       /\ \A q \in BagToSet(inflight') :
            (q.kind = "pitch" /\ Entered(q) /\ q.pc = "checkOut") => files' = files]_vars

\* C14's case: a pitch request has run the tool and succeeded; the finished
\* base audio and the finished pitched audio are both on disk.
C14_Witness ==
    /\ last.kind = "pitch"
    /\ last.status = 200
    /\ last.ran
    /\ last.semi = 3
    /\ Exists(BaseLocation(last.id))
    /\ files[BaseLocation(last.id)].done
    /\ files[BaseLocation(last.id)].kind = "extract"
    /\ Exists(PitchedLocation(last.id, 3))
    /\ files[PitchedLocation(last.id, 3)].done

\* The file at location l is a pitched audio.
IsPitched(f, l) == f[l].kind = "pitch" /\ l.dir = "PITCH_DIR"

\* C17: whenever a pitched audio exists for an identifier, the base audio of
\* that identifier exists, and no pitched audio is created in a state where
\* its base audio is absent.
C17_PitchedHasBase ==
    /\ [](\A l \in DOMAIN files :
            IsPitched(files, l) => Exists(BaseLocation(files[l].id)))
    /\ [][\A l \in DOMAIN files' \ DOMAIN files :
            IsPitched(files', l) => Exists(BaseLocation(files'[l].id))]_vars

\* C17's case: two pitched audios of one identifier are on disk, with its
\* base audio.
C17_Witness ==
    \E i \in IdInputs \ {None} :
        /\ Exists(PitchedLocation(i, 3))
        /\ Exists(PitchedLocation(i, -3))
        /\ files[PitchedLocation(i, 3)].done
        /\ Exists(BaseLocation(i))

\* C19: every pitched audio and every muxed output on disk was made for a
\* semitone value in [-8, 8].
C19_ArtifactsInRange ==
    \A l \in DOMAIN files :
        files[l].kind \in {"pitch", "store"} => (files[l].semi >= -8 /\ files[l].semi <= 8)

\* C19's case: a muxed output for -3 semitones is on disk, made from the
\* pitched audio for -3 semitones.
C19_Witness ==
    \E l \in DOMAIN files :
        /\ l.dir = "DOWNLOADS_DIR"
        /\ files[l].kind = "store"
        /\ files[l].semi = -3
        /\ files[l].done
        /\ Exists(PitchedLocation(files[l].id, -3))

\* ------------------------------------------------------------------------
\* Properties of the range responder
\* ------------------------------------------------------------------------

\* The request is bytes=start-end with 0 <= start <= end (or no end) and
\* start inside the served file.
WellFormedRange ==
    /\ rreq # NoHeader
    /\ rreq.units = Str(<<"b", "y", "t", "e", "s">>)
    /\ rreq.start.t = "num"
    /\ rreq.start.n <= Len(rfile) - 1
    /\ \/ rreq.end.t = "omitted"
       \/ rreq.end.t = "num" /\ rreq.start.n <= rreq.end.n

\* The last byte such a request asks for, clamped to the file.
WantedEnd ==
    IF rreq.end.t = "omitted" \/ rreq.end.n >= Len(rfile) THEN Len(rfile) - 1 ELSE rreq.end.n

\* C10: a well-formed range request inside the file is answered 206 with
\* exactly the bytes start..end' of the file, Content-Range
\* "bytes start-end'/S" and Content-Length end'-start+1.
C10_RangeExact ==
    WellFormedRange =>
        /\ rresp.status = 206
        /\ rresp.body = [i \in 1..(WantedEnd - rreq.start.n + 1) |-> rfile[rreq.start.n + i]]
        /\ rresp.content_range =
               Str(<<"b", "y", "t", "e", "s", " ">>) \o DecStr(rreq.start.n) \o Str(<<"-">>)
               \o DecStr(WantedEnd) \o Str(<<"/">>) \o DecStr(Len(rfile))
        /\ rresp.content_length = WantedEnd - rreq.start.n + 1
        /\ rresp.content_length = Len(rresp.body)

\* C10's case: a range that starts inside the file and whose end overruns it
\* was served.
C10_Witness ==
    /\ WellFormedRange
    /\ rreq.start.n = 1
    /\ rreq.end.t = "num"
    /\ rreq.end.n = Len(rfile)
    /\ rresp.status = 206
    /\ Len(rresp.body) = Len(rfile) - 1
    /\ Len(rfile) >= 3

\* The request is bytes=start-[end] with a start past the last byte of a file
\* that is not empty, and an end that is left out or not below the start.
StartBeyondFile ==
    /\ rresp # NoResp
    /\ rreq # NoHeader
    /\ rreq.units = Str(<<"b", "y", "t", "e", "s">>)
    /\ Len(rfile) >= 1
    /\ rreq.start.t = "num"
    /\ rreq.start.n > Len(rfile) - 1
    /\ \/ rreq.end.t = "omitted"
       \/ rreq.end.t = "num" /\ rreq.end.n >= rreq.start.n

\* C11: a range request whose start is beyond the end of the file is answered
\* with the end clamped to S-1 and Content-Range "bytes min(start,S-1)-(S-1)/S":
\* the start reported never exceeds S-1.
C11_StartClampedToFile ==
    StartBeyondFile =>
        /\ rresp.status = 206
        /\ rresp.content_range =
               Str(<<"b", "y", "t", "e", "s", " ">>) \o DecStr(Len(rfile) - 1) \o Str(<<"-">>)
               \o DecStr(Len(rfile) - 1) \o Str(<<"/">>) \o DecStr(Len(rfile))

\* The request carries no Range header, or one with a unit other than bytes
\* or with a start or end bound that is no number.
AbsentOrMalformedRange ==
    /\ rresp # NoResp
    /\ \/ rreq = NoHeader
       \/ rreq.units # Str(<<"b", "y", "t", "e", "s">>)
       \/ rreq.start.t = "garbage"
       \/ rreq.end.t = "garbage"

\* C12: a request with no Range header or a malformed one is not failed: it
\* is answered OK with the whole file, Accept-Ranges: bytes and
\* Cache-Control: no-store.
C12_FallbackToFullFile ==
    AbsentOrMalformedRange =>
        /\ rresp.status = 200
        /\ rresp.body = rfile
        /\ rresp.accept_ranges = Str(<<"b", "y", "t", "e", "s">>)
        /\ rresp.cache_control = Str(<<"n", "o", "-", "s", "t", "o", "r", "e">>)

\* The request is bytes=start-[end] with bounds that parse as integers and a
\* start that is not negative.
IntegerRange ==
    /\ rresp # NoResp
    /\ rreq # NoHeader
    /\ rreq.units = Str(<<"b", "y", "t", "e", "s">>)
    /\ rreq.start.t = "num"
    /\ rreq.start.n >= 0
    /\ rreq.end.t \in {"omitted", "num"}

\* C18: for a range request whose bounds parse as integers, the
\* Content-Length of the Partial Content response is not negative and is
\* the number of bytes in the response body.
C18_ContentLengthIsBodyLength ==
    (IntegerRange /\ rresp.status = 206) =>
        /\ rresp.content_length >= 0
        /\ rresp.content_length = Len(rresp.body)

\* ------------------------------------------------------------------------
\* Properties of the identity codec
\* ------------------------------------------------------------------------

\* C13: the identity codec is an exact inverse pair: decoding the identifier
\* of an absolute path gives the path back, whatever the length of its UTF-8
\* bytes modulo 3, and the identifier holds no "/" and no "=".
C13_CodecRoundTrip ==
    ctoken # None =>
        /\ cback = cpath
        /\ \A i \in 1..Len(ctoken) : ctoken[i] # 47 /\ ctoken[i] # 61

\* C13's case: a path with a character of several bytes, whose bytes are one
\* more than a multiple of 3 (two padding characters stripped and restored)
\* and whose identifier uses "-" or "_", was encoded and decoded.
C13_Witness ==
    /\ ctoken # None
    /\ Len(Utf8Encode(cpath)) % 3 = 1
    /\ \E i \in 1..Len(cpath) : cpath[i] > 127
    /\ \E i \in 1..Len(ctoken) : ctoken[i] \in {45, 95}
    /\ cback = cpath

\* ------------------------------------------------------------------------
\* Properties of the search roots
\* ------------------------------------------------------------------------

\* In this step an add-path request for p did its append.
Appended(p) == CopiesIn(p, adding') < CopiesIn(p, adding)

\* In this step a request returned at once: rootlast' is its response.
RootAnswered == pissued' = pissued + 1 /\ adding' = adding

\* C16: the list of search roots is an ordered set in every reachable state:
\* no path occurs in it twice, an add-path request for a path in the list
\* leaves the list unchanged, and a remove-path request for a path not in the
\* list leaves it unchanged.
C16_RootsAreAnOrderedSet ==
    /\ [](\A i, j \in 1..Len(SEARCH_PATHS) :
            SEARCH_PATHS[i] = SEARCH_PATHS[j] => i = j)
    /\ [][/\ \A p \in BagToSet(adding) :
               (Appended(p) /\ InList(p, SEARCH_PATHS)) => SEARCH_PATHS' = SEARCH_PATHS
          /\ (RootAnswered /\ rootlast'.op = "add") => SEARCH_PATHS' = SEARCH_PATHS
          /\ (RootAnswered /\ rootlast'.op = "remove" /\ ~InList(rootlast'.p, SEARCH_PATHS))
               => SEARCH_PATHS' = SEARCH_PATHS]_vars

\* ------------------------------------------------------------------------
\* Properties of the video listing
\* ------------------------------------------------------------------------

\* The videos the walk of the k-th search root meets.
VideosUnder(k) ==
    {f \in {VideoA, VideoB} : IsUnder(f, SEARCH_PATHS[k])}

\* The identifiers of the videos under any search root.
DiscoveredIds ==
    {b64url_encode_path(f) : f \in UNION {VideosUnder(k) : k \in 1..Len(SEARCH_PATHS)}}

\* VideoA lies before VideoB in every walk.
WalkRank(f) == IF f = VideoA THEN 1 ELSE 2

\* When the listing meets the video with identifier i first: the first root
\* that reaches it, and its place in that root's walk.
FirstSeen(i) ==
    LET f == CHOOSE v \in {VideoA, VideoB} : b64url_encode_path(v) = i
        k == CHOOSE n \in 1..Len(SEARCH_PATHS) :
                 /\ f \in VideosUnder(n)
                 /\ \A m \in 1..(n - 1) : f \notin VideosUnder(m)
    IN  3 * k + WalkRank(f)

\* C15: the listing returns every video found under the search roots once
\* for each identifier, in the order they are first met, also when roots
\* overlap; a thumbnail that cannot be generated neither fails the listing
\* nor takes its video out of it.
C15_ListingOncePerVideo ==
    listed # NoListing =>
        /\ listed.status = 200
        /\ {listed.videos[n].id : n \in 1..Len(listed.videos)} = DiscoveredIds
        /\ \A m, n \in 1..Len(listed.videos) :
              listed.videos[m].id = listed.videos[n].id => m = n
        /\ \A m, n \in 1..Len(listed.videos) :
              m < n => FirstSeen(listed.videos[m].id) < FirstSeen(listed.videos[n].id)

\* C15's case: two roots that both reach VideoA, and a listing during which
\* the thumbnails of both videos failed: both videos are listed, with no
\* thumbnail on disk for VideoA.
C15_Witness ==
    /\ listed # NoListing
    /\ SEARCH_PATHS = <<DirA, RootDir>>
    /\ listed.warnings = {b64url_encode_path(VideoA), b64url_encode_path(VideoB)}
    /\ Len(listed.videos) = 2
    /\ listed.videos[1].id = b64url_encode_path(VideoA)
    /\ ~Exists(thumb_path_for_id(b64url_encode_path(VideoA)))

====
